---- MODULE Spec2Model ----
(***************************************************************************)
(* Model of qurls.py: the EZproxy URL normalizer fix_ezproxy_url, the      *)
(* record pass process_file, and the Tk shell (App.run_clicked,            *)
(* App._run_worker, App.log_append_threadsafe).                            *)
(*                                                                         *)
(* A string is a sequence of one-character strings.  The urllib.parse      *)
(* functions the normalizer calls (urlparse, parse_qsl, unquote, quote,    *)
(* urlencode, urlunparse) are modelled by what CPython 3.11 computes on    *)
(* the alphabet of the inputs below.                                       *)
(***************************************************************************)
EXTENDS Integers, Sequences, FiniteSets, TLC

VARIABLES
    u, npc, r1, r2,
    recs, csv_path,
    pc, total, touched_recs, changed_links, rows, mem, outfile, csvfile, log, raised,
    run_btn, pb, workers, wpc, uiq, widget, emitted, runs

nvars == <<u, npc, r1, r2>>
fvars == <<recs, csv_path, pc, total, touched_recs, changed_links, rows,
           mem, outfile, csvfile, log, raised>>
gvars == <<run_btn, pb, workers, wpc, uiq, widget, emitted, runs>>
vars == <<nvars, fvars, gvars>>

(***************************************************************************)
(* Bounds of the model.                                                    *)
(***************************************************************************)
MaxPairs == 4
MaxAtoms == 3
MaxRecs == 3
MaxRuns == 2

(***************************************************************************)
(* Strings.                                                                *)
(***************************************************************************)
S_login == <<"/", "l", "o", "g", "i", "n">>
S_url == <<"u", "r", "l">>
S_qurl == <<"q", "u", "r", "l">>
S_http == <<"h", "t", "t", "p">>

\* str.find(c): the index of the first c in s, 0 when there is none.
RECURSIVE FindFrom(_, _, _)
FindFrom(s, c, i) ==
    IF i > Len(s) THEN 0
    ELSE IF s[i] = c THEN i
    ELSE FindFrom(s, c, i + 1)

Find(s, c) == FindFrom(s, c, 1)

\* sub in s
Contains(s, sub) ==
    \E i \in 1..(Len(s) - Len(sub) + 1) : SubSeq(s, i, i + Len(sub) - 1) = sub

\* s[i:] with a 1-based i
Tail1(s, i) == SubSeq(s, i, Len(s))

\* str.split(c): the segments of s between the occurrences of c
RECURSIVE Split(_, _)
Split(s, c) ==
    LET i == Find(s, c)
    IN  IF i = 0 THEN <<s>>
        ELSE <<SubSeq(s, 1, i - 1)>> \o Split(Tail1(s, i + 1), c)

\* sep.join(parts)
RECURSIVE Join(_, _)
Join(parts, sep) ==
    IF Len(parts) = 0 THEN <<>>
    ELSE IF Len(parts) = 1 THEN parts[1]
    ELSE parts[1] \o sep \o Join(Tail(parts), sep)

RECURSIVE Concat(_)
Concat(parts) ==
    IF Len(parts) = 0 THEN <<>> ELSE parts[1] \o Concat(Tail(parts))

(***************************************************************************)
(* Percent-encoding: urllib.parse.unquote and urllib.parse.quote.          *)
(***************************************************************************)
HexDigits == {"0", "2", "3", "5", "6", "A", "B", "D", "F"}

\* A byte the alphabet has no character for.
UnknownByte == "<?>"

\* The character of the byte written %h1h2
Unhex(h1, h2) ==
    CASE <<h1, h2>> = <<"2", "0">> -> " "
      [] <<h1, h2>> = <<"2", "3">> -> "#"
      [] <<h1, h2>> = <<"2", "5">> -> "%"
      [] <<h1, h2>> = <<"2", "6">> -> "&"
      [] <<h1, h2>> = <<"2", "B">> -> "+"
      [] <<h1, h2>> = <<"2", "F">> -> "/"
      [] <<h1, h2>> = <<"3", "A">> -> ":"
      [] <<h1, h2>> = <<"3", "D">> -> "="
      [] <<h1, h2>> = <<"3", "F">> -> "?"
      [] <<h1, h2>> = <<"5", "B">> -> "["
      [] OTHER -> UnknownByte

\* unquote(s): every %XX with two hex digits becomes its character, in one
\* pass from the left; a % that starts no such escape stays as it is.
RECURSIVE Unquote(_)
Unquote(s) ==
    IF Len(s) = 0 THEN <<>>
    ELSE IF s[1] = "%" /\ Len(s) >= 3 /\ s[2] \in HexDigits /\ s[3] \in HexDigits
         THEN <<Unhex(s[2], s[3])>> \o Unquote(Tail1(s, 4))
    ELSE <<s[1]>> \o Unquote(Tail(s))

\* A faulty variant: quote's default safe='/' instead of safe=''
Quote1SlashSafe(c) ==
    CASE c = " " -> <<"%", "2", "0">>
      [] c = "#" -> <<"%", "2", "3">>
      [] c = "%" -> <<"%", "2", "5">>
      [] c = "&" -> <<"%", "2", "6">>
      [] c = "+" -> <<"%", "2", "B">>
      [] c = ":" -> <<"%", "3", "A">>
      [] c = "=" -> <<"%", "3", "D">>
      [] c = "?" -> <<"%", "3", "F">>
      [] c = "[" -> <<"%", "5", "B">>
      [] OTHER -> <<c>>

\* quote(c, safe=''): letters, digits and _.-~ stay, the rest is escaped.
Quote1(c) ==
    CASE c = " " -> <<"%", "2", "0">>
      [] c = "#" -> <<"%", "2", "3">>
      [] c = "%" -> <<"%", "2", "5">>
      [] c = "&" -> <<"%", "2", "6">>
      [] c = "+" -> <<"%", "2", "B">>
      [] c = "/" -> <<"%", "2", "F">>
      [] c = ":" -> <<"%", "3", "A">>
      [] c = "=" -> <<"%", "3", "D">>
      [] c = "?" -> <<"%", "3", "F">>
      [] c = "[" -> <<"%", "5", "B">>
      [] OTHER -> <<c>>

RECURSIVE Quote(_)
Quote(s) ==
    IF Len(s) = 0 THEN <<>> ELSE Quote1(s[1]) \o Quote(Tail(s))

\* s.replace('+', ' ')
PlusToSpace(s) == [i \in 1..Len(s) |-> IF s[i] = "+" THEN " " ELSE s[i]]

(***************************************************************************)
(* parse_qsl(qs, keep_blank_values=True) and                               *)
(* urlencode(params, doseq=True, quote_via=quote).                         *)
(***************************************************************************)
\* One name=value piece: split at the first "=", a missing value is blank,
\* "+" becomes a space and both sides are unquoted.
ParsePair(nv) ==
    LET i == Find(nv, "=")
        name == IF i = 0 THEN nv ELSE SubSeq(nv, 1, i - 1)
        value == IF i = 0 THEN <<>> ELSE Tail1(nv, i + 1)
    IN  [k |-> Unquote(PlusToSpace(name)), v |-> Unquote(PlusToSpace(value))]

RECURSIVE ParsePieces(_)
ParsePieces(pieces) ==
    IF Len(pieces) = 0 THEN <<>>
    ELSE IF Len(pieces[1]) = 0 THEN ParsePieces(Tail(pieces))
    ELSE <<ParsePair(pieces[1])>> \o ParsePieces(Tail(pieces))

ParseQsl(qs) == IF Len(qs) = 0 THEN <<>> ELSE ParsePieces(Split(qs, "&"))

UrlEncode(params) ==
    Join([i \in 1..Len(params) |-> Quote(params[i].k) \o <<"=">> \o Quote(params[i].v)],
         <<"&">>)

(***************************************************************************)
(* urlparse and urlunparse.  No input holds ";" or a control character,    *)
(* so the params component is always empty.                                *)
(***************************************************************************)
Letters == {"g", "h", "i", "j", "k", "l", "n", "o", "p", "q", "r", "t", "u", "x",
            "H", "P", "T"}
SchemeChars == Letters \cup {"0", "2", "3", "5", "6", "+", "-", "."}
UsesNetloc == {S_http}

Lower1(c) ==
    CASE c = "H" -> "h"
      [] c = "T" -> "t"
      [] c = "P" -> "p"
      [] OTHER -> c

Lower(s) == [i \in 1..Len(s) |-> Lower1(s[i])]

RECURSIVE LStrip(_)
LStrip(s) == IF Len(s) > 0 /\ s[1] = " " THEN LStrip(Tail(s)) ELSE s

\* The first index >= 3 of s holding one of / ? #, Len(s)+1 when none does
RECURSIVE NetlocEnd(_, _)
NetlocEnd(s, i) ==
    IF i > Len(s) THEN i
    ELSE IF s[i] \in {"/", "?", "#"} THEN i
    ELSE NetlocEnd(s, i + 1)

\* ('[' in netloc) != (']' in netloc): urlsplit raises ValueError
BadNetloc(netloc) == (Find(netloc, "[") > 0) # (Find(netloc, "]") > 0)

\* url.split('?', 1), the last step of urlsplit
SplitQueryAt(scheme, netloc, url4, fragment, q) ==
    [ok |-> ~BadNetloc(netloc),
     scheme |-> scheme,
     netloc |-> netloc,
     path |-> IF q = 0 THEN url4 ELSE SubSeq(url4, 1, q - 1),
     query |-> IF q = 0 THEN <<>> ELSE Tail1(url4, q + 1),
     fragment |-> fragment]

SplitQuery(scheme, netloc, url4, fragment) ==
    SplitQueryAt(scheme, netloc, url4, fragment, Find(url4, "?"))

\* url.split('#', 1)
SplitFragmentAt(scheme, netloc, url3, h) ==
    SplitQuery(scheme, netloc,
               IF h = 0 THEN url3 ELSE SubSeq(url3, 1, h - 1),
               IF h = 0 THEN <<>> ELSE Tail1(url3, h + 1))

SplitFragment(scheme, netloc, url3) ==
    SplitFragmentAt(scheme, netloc, url3, Find(url3, "#"))

\* if url[:2] == '//': netloc, url = _splitnetloc(url, 2)
SplitNetlocAt(scheme, url2, hasNetloc, e) ==
    SplitFragment(scheme,
                  IF hasNetloc THEN SubSeq(url2, 3, e - 1) ELSE <<>>,
                  IF hasNetloc THEN Tail1(url2, e) ELSE url2)

SplitNetloc(scheme, url2) ==
    SplitNetlocAt(scheme, url2,
                  Len(url2) >= 2 /\ url2[1] = "/" /\ url2[2] = "/",
                  NetlocEnd(url2, 3))

\* The text before the first ":" is a scheme when it starts with a letter
\* and holds scheme characters only
HasScheme(url1, i) ==
    /\ i > 1
    /\ url1[1] \in Letters
    /\ \A j \in 1..(i - 1) : url1[j] \in SchemeChars

SplitSchemeAt(url1, hasScheme, i) ==
    SplitNetloc(IF hasScheme THEN Lower(SubSeq(url1, 1, i - 1)) ELSE <<>>,
                IF hasScheme THEN Tail1(url1, i + 1) ELSE url1)

SplitScheme(url1, i) == SplitSchemeAt(url1, HasScheme(url1, i), i)

FindScheme(url1) == SplitScheme(url1, Find(url1, ":"))

\* urlparse(url): [ok, scheme, netloc, path, query, fragment]; ok is FALSE
\* where urlparse raises
UrlParse(url0) == FindScheme(LStrip(url0))

\* urlunparse(parsed)
UrlUnparse(p) ==
    (IF Len(p.scheme) > 0 THEN p.scheme \o <<":">> ELSE <<>>)
    \o (IF Len(p.netloc) > 0
           \/ (Len(p.scheme) > 0 /\ p.scheme \in UsesNetloc
               /\ ~(Len(p.path) >= 2 /\ p.path[1] = "/" /\ p.path[2] = "/"))
        THEN <<"/", "/">> \o p.netloc
             \o (IF Len(p.path) > 0 /\ p.path[1] # "/" THEN <<"/">> ELSE <<>>)
        ELSE <<>>)
    \o p.path
    \o (IF Len(p.query) > 0 THEN <<"?">> \o p.query ELSE <<>>)
    \o (IF Len(p.fragment) > 0 THEN <<"#">> \o p.fragment ELSE <<>>)

(***************************************************************************)
(* fix_ezproxy_url.                                                        *)
(***************************************************************************)
IsTarget(k) == k = S_url \/ k = S_qurl

\* The scan "for k, v in params": the index of the first url or qurl pair,
\* 0 when target_val stays None.
RECURSIVE TargetFrom(_, _)
TargetFrom(params, i) ==
    IF i > Len(params) THEN 0
    ELSE IF IsTarget(params[i].k) THEN i
    ELSE TargetFrom(params, i + 1)

\* A faulty variant: the first pair is taken, whatever its key
TargetIndexAnyKey(params) == IF Len(params) > 0 THEN 1 ELSE 0

\* A faulty variant: the last url or qurl pair wins
TargetIndexLast(params) ==
    IF \A i \in 1..Len(params) : ~IsTarget(params[i].k) THEN 0
    ELSE CHOOSE i \in 1..Len(params) :
            IsTarget(params[i].k) /\ \A j \in (i + 1)..Len(params) : ~IsTarget(params[j].k)

TargetIndex(params) == TargetFrom(params, 1)

\* new_params before the append: every pair that is neither url nor qurl
KeepParam(p) == ~IsTarget(p.k)

NewParams(params) == SelectSeq(params, KeepParam)

\* raw_target = unquote(target_val)
RawTarget(target_val) == Unquote(target_val)

Unchanged(url) == [fixed |-> url, changed |-> FALSE, raised |-> FALSE]

\* except Exception: return u, False
OnParseError(url) == Unchanged(url)

\* changed = (fixed != u) or had_url
Rebuilt(url, had_url, fixed) ==
    [fixed |-> fixed, changed |-> (fixed # url) \/ had_url, raised |-> FALSE]

\* new_params.append(("qurl", raw_target)); urlencode; urlunparse
FixTarget(url, parsed, params, t) ==
    IF t = 0 THEN Unchanged(url)
    ELSE Rebuilt(url, params[t].k = S_url,
                 UrlUnparse([parsed EXCEPT !.query =
                     UrlEncode(NewParams(params)
                               \o <<[k |-> S_qurl, v |-> RawTarget(params[t].v)]>>)]))

FixParams(url, parsed, params) == FixTarget(url, parsed, params, TargetIndex(params))

FixParsed(url, parsed) ==
    IF ~parsed.ok THEN OnParseError(url)
    ELSE IF ~Contains(parsed.path, S_login) \/ Len(parsed.query) = 0 THEN Unchanged(url)
    ELSE FixParams(url, parsed, ParseQsl(parsed.query))

FixEzproxyUrl(url) == FixParsed(url, UrlParse(url))

(***************************************************************************)
(* The URLs the normalizer is run on: a head (scheme, host, path), "?", a  *)
(* query and a tail (fragment).  A query is either up to MaxPairs pieces   *)
(* joined by "&", or one url/qurl pair whose value is up to MaxAtoms atoms *)
(* (plain text, reserved characters, escapes and escaped escapes).         *)
(***************************************************************************)
Shapes ==
    { [head |-> S_login, tail |-> <<>>, rich |-> TRUE],
      [head |-> S_http \o <<":", "/", "/", "x">> \o S_login, tail |-> <<"#", "x">>,
       rich |-> TRUE],
      [head |-> <<"/", "o">>, tail |-> <<>>, rich |-> FALSE],
      [head |-> <<"/", "/", "[">> \o S_login, tail |-> <<>>, rich |-> FALSE],
      [head |-> <<"H", "T", "T", "P", ":", "/", "/", "x">> \o S_login \o <<"/", "o">>,
       tail |-> <<>>, rich |-> FALSE] }

Pieces ==
    { S_url \o <<"=", "x">>, S_qurl \o <<"=", "/">>, <<"k", "=", "x">>, <<"j">>, <<>> }

Atoms ==
    { <<"x">>, S_http \o <<":", "/", "/", "x">>, <<"%", "2", "F">>, <<"%", "2", "5">>,
      <<"2", "5">>, <<"2", "F">>, <<"+">>, <<" ">> }

SeqsUpTo(S, n) == UNION { [1..m -> S] : m \in 0..n }

PieceQueries == { Join(ps, <<"&">>) : ps \in SeqsUpTo(Pieces, MaxPairs) }

RichValues == { Concat(as) : as \in SeqsUpTo(Atoms, MaxAtoms) }

RichQueries == { k \o <<"=">> \o v : k \in {S_url, S_qurl}, v \in RichValues }

QueriesOf(s) == IF s.rich THEN PieceQueries \cup RichQueries ELSE PieceQueries

UrlInputs == UNION { { s.head \o <<"?">> \o q \o s.tail : q \in QueriesOf(s) } : s \in Shapes }

NoResult == [fixed |-> <<>>, changed |-> FALSE, raised |-> FALSE]

(***************************************************************************)
(* The states outside the part a specification runs.                       *)
(***************************************************************************)
NormIdle == u = <<>> /\ npc = "off" /\ r1 = NoResult /\ r2 = NoResult

(***************************************************************************)
(* The normalizer applied to an input URL, then to its own result.         *)
(***************************************************************************)
Normalize ==
    /\ npc = "in"
    /\ r1' = FixEzproxyUrl(u)
    /\ npc' = "once"
    /\ UNCHANGED <<u, r2>>

Renormalize ==
    /\ npc = "once"
    /\ r2' = FixEzproxyUrl(r1.fixed)
    /\ npc' = "twice"
    /\ UNCHANGED <<u, r1>>

(***************************************************************************)
(* MARC records as pymarc hands them to process_file: a record has an      *)
(* optional 001 control field and a sequence of fields; a field has a tag  *)
(* and a sequence of (code, value) subfields.                              *)
(***************************************************************************)
\* A record without a 001 field
No001 == [present |-> FALSE, val |-> <<>>]

Id001(val) == [present |-> TRUE, val |-> val]

Sub(code, val) == [code |-> code, val |-> val]

U_fix == S_login \o <<"?">> \o S_url \o <<"=", "x">>
U_ok == S_login \o <<"?">> \o S_qurl \o <<"=", "x">>
U_enc == S_login \o <<"?">> \o S_qurl \o <<"=", "/">>
U_other == <<"/", "o", "?">> \o S_url \o <<"=", "x">>

F_title == [tag |-> "245", subs |-> <<Sub("a", <<"t">>)>>]
F_mix == [tag |-> "856", subs |-> <<Sub("u", U_fix), Sub("z", <<"n">>), Sub("u", U_ok)>>]
F_two == [tag |-> "856", subs |-> <<Sub("z", <<"n">>), Sub("u", U_fix), Sub("u", U_enc)>>]
F_same == [tag |-> "856", subs |-> <<Sub("u", U_ok), Sub("z", <<"n">>), Sub("u", U_other)>>]
F_nou == [tag |-> "856", subs |-> <<Sub("z", <<"n">>)>>]

RecordInputs ==
    { [id001 |-> Id001(<<"7", " ">>), fields |-> <<F_title, F_mix>>],
      [id001 |-> No001, fields |-> <<F_mix, F_two>>],
      [id001 |-> Id001(<<"7", " ">>), fields |-> <<F_title, F_same, F_nou>>],
      [id001 |-> Id001(<<" ", "8">>), fields |-> <<F_two>>],
      [id001 |-> No001, fields |-> <<F_title>>] }

FileInputs == SeqsUpTo(RecordInputs, MaxRecs)

\* A change-log path, or None
CsvPaths == {"None", "changes.csv"}

\* str.strip() on the characters of the inputs
RECURSIVE RStrip(_)
RStrip(s) == IF Len(s) > 0 /\ s[Len(s)] = " " THEN RStrip(SubSeq(s, 1, Len(s) - 1)) ELSE s

Strip(s) == RStrip(LStrip(s))

\* rec_id = (rec['001'].value() if rec['001'] else "").strip()
RecId(rec) == IF ~rec.id001.present THEN <<>> ELSE Strip(rec.id001.val)

\* f.get_subfields('u'): the values of the field's $u subfields, in order
IsU(sf) == sf.code = "u"

NotU(sf) == sf.code # "u"

SubUs(f) ==
    LET us == SelectSeq(f.subs, IsU) IN [i \in 1..Len(us) |-> us[i].val]

\* new_subus: the normalizer's result for every $u value
FixAll(subus) == [i \in 1..Len(subus) |-> FixEzproxyUrl(subus[i]).fixed]

NewSubUs(f) == FixAll(SubUs(f))

\* rows.append([rec_id, u, new_u]) when the normalizer returned changed
ChangeRow(rec_id, orig, r) == IF r.changed THEN <<<<rec_id, orig, r.fixed>>>> ELSE <<>>

RECURSIVE ChangesOf(_, _)
ChangesOf(rec_id, subus) ==
    IF Len(subus) = 0 THEN <<>>
    ELSE ChangeRow(rec_id, subus[1], FixEzproxyUrl(subus[1]))
         \o ChangesOf(rec_id, Tail(subus))

\* sub_changed_any
AnyChanged(subus) == \E i \in 1..Len(subus) : FixEzproxyUrl(subus[i]).changed

SubChangedAny(f) == AnyChanged(SubUs(f))

\* A faulty variant: the $u subfields are deleted and added back whatever changed
RewriteAlways(f) == TRUE

\* "if sub_changed_any:" the field is rewritten
RewriteNeeded(f) == SubChangedAny(f)

\* while 'u' in f: f.delete_subfield('u'); then f.add_subfield('u', val) for
\* every new value: the other subfields stay, the new $u follow them.
AsSubUs(vals) == [i \in 1..Len(vals) |-> Sub("u", vals[i])]

RewriteField(f) == [f EXCEPT !.subs = SelectSeq(f.subs, NotU) \o AsSubUs(NewSubUs(f))]

\* One pass of "for f in rec.get_fields('856')" over a field of the record
FixField(f) ==
    IF f.tag # "856" \/ Len(SubUs(f)) = 0 THEN f
    ELSE IF RewriteNeeded(f) THEN RewriteField(f)
    ELSE f

FixRecord(rec) == [rec EXCEPT !.fields = [i \in 1..Len(rec.fields) |-> FixField(rec.fields[i])]]

\* The rows the record adds to the change log
RECURSIVE RowsOfFields(_, _)
RowsOfFields(rec_id, fields) ==
    IF Len(fields) = 0 THEN <<>>
    ELSE (IF fields[1].tag = "856" THEN ChangesOf(rec_id, SubUs(fields[1])) ELSE <<>>)
         \o RowsOfFields(rec_id, Tail(fields))

RowsOf(rec) == RowsOfFields(RecId(rec), rec.fields)

\* rec_changed
RecChanged(rec) ==
    \E i \in 1..Len(rec.fields) :
        rec.fields[i].tag = "856" /\ SubChangedAny(rec.fields[i])

\* A faulty variant: touched_recs is counted per changed field
TouchedPerField(rec) ==
    Cardinality({ i \in 1..Len(rec.fields) :
                    rec.fields[i].tag = "856" /\ SubChangedAny(rec.fields[i]) })

\* "if rec_changed: touched_recs += 1"
TouchedDelta(rec) == IF RecChanged(rec) THEN 1 ELSE 0

(***************************************************************************)
(* process_file.  Files are [exists, content]; a log line is what log_fn   *)
(* was called with, as [kind, n].                                          *)
(***************************************************************************)
ProgressEvery == 1000

NoFile == [exists |-> FALSE, content |-> <<>>]

File(content) == [exists |-> TRUE, content |-> content]

Line(kind) == [kind |-> kind, n |-> <<>>]

DoneLine == [kind |-> "done", n |-> <<total, touched_recs, changed_links>>]

Header == << <<"record_001">>, <<"original_856u">>, <<"updated_856u">> >>

FileIdle ==
    /\ recs = <<>>
    /\ csv_path = "None"
    /\ pc = "off"
    /\ total = 0
    /\ touched_recs = 0
    /\ changed_links = 0
    /\ rows = <<>>
    /\ mem = <<>>
    /\ outfile = NoFile
    /\ csvfile = NoFile
    /\ log = <<>>
    /\ raised = FALSE

\* A faulty variant: the handler logs the error and does not re-raise
ErrorSwallowed(lines) ==
    /\ log' = log \o lines \o <<Line("error")>>
    /\ raised' = FALSE
    /\ pc' = "csv"

\* The handler "except Exception as e: log_fn(error); raise", after the
\* lines already passed to log_fn in the same step.
ErrorExit(lines) ==
    /\ log' = log \o lines \o <<Line("error")>>
    /\ raised' = TRUE
    /\ pc' = "failed"

\* log_fn("Reading"), then both files open; 'wb' creates or truncates outfile
PF_Open ==
    /\ pc = "start"
    /\ log' = Append(log, Line("reading"))
    /\ outfile' = File(<<>>)
    /\ pc' = "loop"
    /\ UNCHANGED <<recs, csv_path, total, touched_recs, changed_links, rows, mem,
                   csvfile, raised>>

\* open(infile) or open(outfile) raises
PF_OpenFail ==
    /\ pc = "start"
    /\ ErrorExit(<<Line("reading")>>)
    /\ UNCHANGED <<recs, csv_path, total, touched_recs, changed_links, rows, mem,
                   outfile, csvfile>>

\* One iteration of "for rec in reader"
PF_Record ==
    /\ pc = "loop"
    /\ total < Len(recs)
    /\ total' = total + 1
    /\ rows' = rows \o RowsOf(recs[total + 1])
    /\ changed_links' = changed_links + Len(RowsOf(recs[total + 1]))
    /\ mem' = Append(mem, FixRecord(recs[total + 1]))
    /\ touched_recs' = touched_recs + TouchedDelta(recs[total + 1])
    /\ log' = IF (total + 1) % ProgressEvery = 0
              THEN Append(log, [kind |-> "progress", n |-> <<total + 1>>])
              ELSE log
    /\ UNCHANGED <<recs, csv_path, pc, outfile, csvfile, raised>>

\* The reader raises on the next record (an I/O error while reading it)
PF_ReadFail ==
    /\ pc = "loop"
    /\ total < Len(recs)
    /\ ErrorExit(<<>>)
    /\ UNCHANGED <<recs, csv_path, total, touched_recs, changed_links, rows, mem,
                   outfile, csvfile>>

\* The loop body raises after "total += 1", before the fields are visited:
\* the reader has yielded None for a record it cannot decode, or the record
\* lookup rec['001'] raises
PF_DecodeFail ==
    /\ pc = "loop"
    /\ total < Len(recs)
    /\ total' = total + 1
    /\ ErrorExit(<<>>)
    /\ UNCHANGED <<recs, csv_path, touched_recs, changed_links, rows, mem,
                   outfile, csvfile>>

\* The reader is exhausted; writer.close() and the with block's exit
PF_Close ==
    /\ pc = "loop"
    /\ total = Len(recs)
    /\ pc' = "csv"
    /\ UNCHANGED <<recs, csv_path, total, touched_recs, changed_links, rows, mem,
                   outfile, csvfile, log, raised>>

\* writer.close() or closing a file raises
PF_CloseFail ==
    /\ pc = "loop"
    /\ total = Len(recs)
    /\ ErrorExit(<<>>)
    /\ UNCHANGED <<recs, csv_path, total, touched_recs, changed_links, rows, mem,
                   outfile, csvfile>>

\* A faulty variant: "if csv_path:"
CsvWantedAnyRows == csv_path # "None"

\* "if csv_path and rows:"
CsvWanted == csv_path # "None" /\ Len(rows) > 0

PF_Csv ==
    /\ pc = "csv"
    /\ CsvWanted
    /\ csvfile' = File(<<Header>> \o rows)
    /\ log' = log \o <<Line("csv_written"), DoneLine>>
    /\ pc' = "done"
    /\ UNCHANGED <<recs, csv_path, total, touched_recs, changed_links, rows, mem,
                   outfile, raised>>

\* Opening or writing the change log raises: what it holds is the part
\* written before the error.
PF_CsvFail ==
    /\ pc = "csv"
    /\ CsvWanted
    /\ \E part \in {csvfile, File(<<>>), File(<<Header>>)} : csvfile' = part
    /\ log' = log \o <<Line("csv_warning"), DoneLine>>
    /\ pc' = "done"
    /\ UNCHANGED <<recs, csv_path, total, touched_recs, changed_links, rows, mem,
                   outfile, raised>>

PF_NoCsv ==
    /\ pc = "csv"
    /\ ~CsvWanted
    /\ log' = Append(log, DoneLine)
    /\ pc' = "done"
    /\ UNCHANGED <<recs, csv_path, total, touched_recs, changed_links, rows, mem,
                   outfile, csvfile, raised>>

(***************************************************************************)
(* The Tk shell.  uiq is the queue of callbacks that after(0, ...) hands   *)
(* to the UI thread, widget the lines of the log widget.                   *)
(***************************************************************************)
GuiIdle ==
    /\ run_btn = "normal"
    /\ pb = "stopped"
    /\ workers = 0
    /\ wpc = "idle"
    /\ uiq = <<>>
    /\ widget = <<>>
    /\ emitted = <<>>
    /\ runs = 0

GuiFiles ==
    { <<>>,
      <<[id001 |-> Id001(<<"7", " ">>), fields |-> <<F_title, F_mix>>]>>,
      <<[id001 |-> No001, fields |-> <<F_title>>],
        [id001 |-> Id001(<<" ", "8">>), fields |-> <<F_two>>]>> }

\* log_clear(), then log_append of Input, Output, CSV (when given), Starting
UiLines(csvfile_arg) ==
    <<Line("input"), Line("output")>>
    \o (IF csvfile_arg # "None" THEN <<Line("csv")>> ELSE <<>>)
    \o <<Line("starting")>>

\* log_append_threadsafe(text): self.after(0, lambda: self.log_append(text))
LogEvents(lines) == [i \in 1..Len(lines) |-> [type |-> "log", line |-> lines[i]]]

\* self.after(0, lambda: (self.pb.stop(), self.run_btn.config(state="normal")))
FinishEvent == [type |-> "finish", line |-> Line("finish")]

\* The Run button's command: it fires only while the button is enabled.
\* A failed validation shows a message box and returns.
RunClicked ==
    /\ run_btn = "normal"
    /\ runs < MaxRuns
    /\ \E infile \in GuiFiles, csvfile_arg \in CsvPaths, valid \in BOOLEAN :
        IF ~valid THEN UNCHANGED <<fvars, gvars>>
        ELSE /\ widget' = UiLines(csvfile_arg)
             /\ run_btn' = "disabled"
             /\ pb' = "running"
             /\ workers' = workers + 1
             /\ wpc' = "run"
             /\ runs' = runs + 1
             /\ emitted' = <<>>
             /\ recs' = infile
             /\ csv_path' = csvfile_arg
             /\ pc' = "start"
             /\ total' = 0
             /\ touched_recs' = 0
             /\ changed_links' = 0
             /\ rows' = <<>>
             /\ mem' = <<>>
             /\ log' = <<>>
             /\ raised' = FALSE
             /\ UNCHANGED <<uiq, outfile, csvfile>>

\* A step of process_file on the worker thread; every line it passes to
\* log_fn is queued for the UI thread.
OnWorker(step) ==
    /\ wpc = "run"
    /\ step
    /\ uiq' = uiq \o LogEvents(SubSeq(log', Len(log) + 1, Len(log')))
    /\ emitted' = emitted \o SubSeq(log', Len(log) + 1, Len(log'))
    /\ UNCHANGED <<run_btn, pb, workers, wpc, widget, runs>>

\* process_file has returned ("All done") or raised ("Failed")
WorkerReport ==
    /\ wpc = "run"
    /\ pc \in {"done", "failed"}
    /\ emitted' = Append(emitted, IF raised THEN Line("failed") ELSE Line("all_done"))
    /\ uiq' = uiq \o LogEvents(<<emitted'[Len(emitted')]>>)
    /\ wpc' = "finally"
    /\ UNCHANGED <<fvars, run_btn, pb, workers, widget, runs>>

\* A faulty variant: the re-enabling callback is queued after "All done" only, not in
\* a finally clause
WorkerFinallyOnSuccess ==
    /\ wpc = "finally"
    /\ ~raised
    /\ uiq' = Append(uiq, [type |-> "finish", line |-> Line("finish")])
    /\ wpc' = "idle"
    /\ workers' = workers - 1
    /\ UNCHANGED <<fvars, run_btn, pb, widget, emitted, runs>>

\* finally: the re-enabling callback is queued and the thread ends
WorkerFinally ==
    /\ wpc = "finally"
    /\ uiq' = Append(uiq, FinishEvent)
    /\ wpc' = "idle"
    /\ workers' = workers - 1
    /\ UNCHANGED <<fvars, run_btn, pb, widget, emitted, runs>>

\* The UI thread runs the oldest queued callback
UiApply ==
    /\ Len(uiq) > 0
    /\ uiq' = Tail(uiq)
    /\ IF Head(uiq).type = "log"
       THEN /\ widget' = Append(widget, Head(uiq).line)
            /\ UNCHANGED <<run_btn, pb>>
       ELSE /\ run_btn' = "normal"
            /\ pb' = "stopped"
            /\ UNCHANGED widget
    /\ UNCHANGED <<fvars, workers, wpc, emitted, runs>>

(***************************************************************************)
(* Specifications.                                                         *)
(***************************************************************************)
InitNorm ==
    /\ u \in UrlInputs
    /\ npc = "in"
    /\ r1 = NoResult
    /\ r2 = NoResult
    /\ FileIdle
    /\ GuiIdle

NextNorm ==
    \/ Normalize /\ UNCHANGED <<fvars, gvars>>
    \/ Renormalize /\ UNCHANGED <<fvars, gvars>>

SpecNorm == InitNorm /\ [][NextNorm]_vars

(***************************************************************************)
(* Properties of the normalizer, under SpecNorm.                           *)
(***************************************************************************)
IsOther(p) == p.k # S_url /\ p.k # S_qurl

NoTargetKey(params) == \A i \in 1..Len(params) : IsOther(params[i])

HasLogin(p) == Contains(p.path, S_login)

\* C2: normalizing the result of a normalization returns that result.
C2_Idempotent == npc = "twice" => r2.fixed = r1.fixed

EarlyReturn(p) ==
    ~p.ok \/ ~HasLogin(p) \/ Len(p.query) = 0 \/ NoTargetKey(ParseQsl(p.query))

\* C3: a URL that does not parse, has no "/login" in its path, has an empty
\* query or has no url/qurl pair comes back as it is, with changed = FALSE,
\* and nothing is raised.
C3_EarlyReturnUnchanged ==
    (npc # "in" /\ EarlyReturn(UrlParse(u)))
        => (r1.fixed = u /\ ~r1.changed /\ ~r1.raised)

C3_Witness ==
    /\ npc = "once"
    /\ UrlParse(u).ok
    /\ HasLogin(UrlParse(u))
    /\ Len(ParseQsl(UrlParse(u).query)) >= 2
    /\ NoTargetKey(ParseQsl(UrlParse(u).query))

Applies(p) ==
    p.ok /\ HasLogin(p) /\ Len(p.query) > 0 /\ ~NoTargetKey(ParseQsl(p.query))

FirstTarget(params) ==
    CHOOSE i \in 1..Len(params) :
        ~IsOther(params[i]) /\ \A j \in 1..(i - 1) : IsOther(params[j])

Expected(params) ==
    SelectSeq(params, IsOther)
    \o <<[k |-> S_qurl, v |-> Unquote(params[FirstTarget(params)].v)]>>

\* C4: when the transform applies, the pairs of the result's query are the
\* input's pairs other than url/qurl, with their values and in their order,
\* followed by the single pair qurl carrying the (once more decoded) value of
\* the first url/qurl pair; no url pair and no later url/qurl value remains.
C4_ParamSequence ==
    (npc # "in" /\ Applies(UrlParse(u)))
        => ParseQsl(UrlParse(r1.fixed).query) = Expected(ParseQsl(UrlParse(u).query))

Targets(params) == SelectSeq(params, LAMBDA p : ~IsOther(p))

C4_Witness ==
    /\ npc = "once"
    /\ Applies(UrlParse(u))
    /\ Len(SelectSeq(ParseQsl(UrlParse(u).query), IsOther)) = 2
    /\ Len(Targets(ParseQsl(UrlParse(u).query))) = 2
    /\ Targets(ParseQsl(UrlParse(u).query))[1].v # Targets(ParseQsl(UrlParse(u).query))[2].v
    /\ ~IsOther(ParseQsl(UrlParse(u).query)[2])

RawReserved(text) == Find(text, "/") > 0 \/ Find(text, ":") > 0

IsRawQurl(piece) ==
    Len(piece) > 5 /\ SubSeq(piece, 1, 5) = S_qurl \o <<"=">> /\ RawReserved(piece)

HasRawQurl(pieces) == \E i \in 1..Len(pieces) : IsRawQurl(pieces[i])

NoUrlKey(params) == \A i \in 1..Len(params) : params[i].k # S_url

\* A "/login" URL with a qurl pair whose value is written with "/" or ":"
\* unencoded, and no url pair
RawQurlShape(p) ==
    /\ p.ok
    /\ HasLogin(p)
    /\ HasRawQurl(Split(p.query, "&"))
    /\ NoUrlKey(ParseQsl(p.query))

\* C5 as stated: such a URL comes back unchanged with changed = FALSE.
C5_Original ==
    (npc # "in" /\ RawQurlShape(UrlParse(u))) => (r1.fixed = u /\ ~r1.changed)

\* C5 as amended: such a URL comes back as a different string whose query
\* holds no unencoded "/" or ":" (the qurl value is percent-encoded), with
\* changed = TRUE.
C5_Reencoded ==
    (npc # "in" /\ RawQurlShape(UrlParse(u)))
        => (r1.fixed # u /\ r1.changed /\ ~RawReserved(UrlParse(r1.fixed).query))

C5_Witness ==
    /\ npc = "once"
    /\ RawQurlShape(UrlParse(u))
    /\ UrlParse(u).scheme = S_http
    /\ Len(ParseQsl(UrlParse(u).query)) = 1
    /\ Contains(UrlParse(u).query, S_http \o <<":", "/", "/", "x">>)

InitFile ==
    /\ NormIdle
    /\ recs \in FileInputs
    /\ csv_path \in CsvPaths
    /\ pc = "start"
    /\ total = 0
    /\ touched_recs = 0
    /\ changed_links = 0
    /\ rows = <<>>
    /\ mem = <<>>
    /\ outfile = NoFile
    /\ csvfile = NoFile
    /\ log = <<>>
    /\ raised = FALSE
    /\ GuiIdle

NextFile ==
    \/ PF_Open /\ UNCHANGED <<nvars, gvars>>
    \/ PF_OpenFail /\ UNCHANGED <<nvars, gvars>>
    \/ PF_Record /\ UNCHANGED <<nvars, gvars>>
    \/ PF_ReadFail /\ UNCHANGED <<nvars, gvars>>
    \/ PF_DecodeFail /\ UNCHANGED <<nvars, gvars>>
    \/ PF_Close /\ UNCHANGED <<nvars, gvars>>
    \/ PF_CloseFail /\ UNCHANGED <<nvars, gvars>>
    \/ PF_Csv /\ UNCHANGED <<nvars, gvars>>
    \/ PF_CsvFail /\ UNCHANGED <<nvars, gvars>>
    \/ PF_NoCsv /\ UNCHANGED <<nvars, gvars>>

SpecFile == InitFile /\ [][NextFile]_vars

(***************************************************************************)
(* Properties of process_file, under SpecFile.                             *)
(***************************************************************************)
HasLine(kind) == \E i \in 1..Len(log) : log[i].kind = kind

\* C1: when the pass ends without error, the output holds every record read,
\* once and in source order, in its rewritten form, and as many records as
\* the total counter says.
C1_AllCommitted ==
    pc = "done"
        => /\ outfile.exists
           /\ outfile.content = [i \in 1..Len(recs) |-> FixRecord(recs[i])]
           /\ Len(outfile.content) = total

UValues(f) ==
    [i \in 1..Len(SelectSeq(f.subs, IsU)) |-> SelectSeq(f.subs, IsU)[i].val]

ChangedIn(f) ==
    IF f.tag # "856" THEN 0
    ELSE Cardinality({ i \in 1..Len(UValues(f)) : FixEzproxyUrl(UValues(f)[i]).changed })

RECURSIVE ChangedInFields(_)
ChangedInFields(fields) ==
    IF Len(fields) = 0 THEN 0 ELSE ChangedIn(fields[1]) + ChangedInFields(Tail(fields))

RECURSIVE ChangedInRecs(_)
ChangedInRecs(rs) ==
    IF Len(rs) = 0 THEN 0 ELSE ChangedInFields(rs[1].fields) + ChangedInRecs(Tail(rs))

\* C6: after any prefix of the pass, total counts the records the loop has
\* entered (those processed and, after an abort inside the loop body, the one
\* it aborted on), changed_links the Change Records, one per $u value the
\* normalizer changed, and touched_recs the processed records with at least
\* one such value, each once.
C6_Counters ==
    /\ total <= Len(recs)
    /\ Len(mem) <= total
    /\ total <= Len(mem) + 1
    /\ total = Len(mem) \/ pc = "failed"
    /\ changed_links = Len(rows)
    /\ changed_links = ChangedInRecs(SubSeq(recs, 1, Len(mem)))
    /\ touched_recs = Cardinality({ i \in 1..Len(mem) : ChangedInFields(recs[i].fields) > 0 })
    /\ touched_recs <= total
    /\ touched_recs <= changed_links

C6_Witness ==
    /\ pc = "loop"
    /\ total = 2
    /\ touched_recs = 1
    /\ changed_links = 3

FieldFrame(old, new) ==
    IF ChangedIn(old) > 0
    THEN /\ new.tag = old.tag
         /\ Len(UValues(new)) = Len(UValues(old))
         /\ \A i \in 1..Len(UValues(old)) :
                UValues(new)[i] = FixEzproxyUrl(UValues(old)[i]).fixed
         /\ SelectSeq(new.subs, NotU) = SelectSeq(old.subs, NotU)
    ELSE new = old

\* C7: in a processed record, an 856 field with a changed $u value holds the
\* normalizer's result for each of its $u values, in order, and its other
\* subfields as they were; every other field is as it was read.
C7_FieldRewrite ==
    \A r \in 1..Len(mem) :
        /\ mem[r].id001 = recs[r].id001
        /\ Len(mem[r].fields) = Len(recs[r].fields)
        /\ \A i \in 1..Len(recs[r].fields) : FieldFrame(recs[r].fields[i], mem[r].fields[i])

\* A record with an untouched field and a field whose first $u was changed:
\* the $z subfield and the second $u value are as read
C7_Witness ==
    /\ Len(mem) = 2
    /\ Len(recs[2].fields) = 2
    /\ recs[2].fields[2] = F_mix
    /\ mem[2].fields[1] = F_title
    /\ mem[2].fields[2] # F_mix
    /\ UValues(mem[2].fields[2]) = <<FixEzproxyUrl(U_fix).fixed, U_ok>>

AbortState ==
    /\ pc = "failed"
    /\ raised
    /\ log[Len(log)].kind = "error"
    /\ ~HasLine("done")
    /\ ~HasLine("csv_written")
    /\ ~HasLine("csv_warning")
    /\ ~csvfile.exists

\* C8: once an error has occurred in the record pass, the run has stopped
\* with the error reported and raised: no record is processed afterwards, no
\* change log is written, no Done summary is emitted, and the step of the
\* error leaves the processed records, the Change Records and the output as
\* they were.
C8_Abort ==
    [][/\ HasLine("error")' => AbortState'
       /\ HasLine("error")' => UNCHANGED <<touched_recs, changed_links, rows,
                                           mem, outfile, csvfile>>]_vars

C8_Witness ==
    /\ pc = "failed"
    /\ total = 1
    /\ Len(recs) = 3
    /\ outfile.exists

Attempted == HasLine("csv_written") \/ HasLine("csv_warning")

\* C9: at the end of an error-free pass the change log is written exactly
\* when a path is given and there is a Change Record, as the header row and
\* the Change Records in order; a failure to write it is logged as a warning,
\* nothing is raised and the Done summary with the three counters follows.
C9_ChangeLog ==
    pc = "done"
        => /\ ~raised
           /\ log[Len(log)] = [kind |-> "done", n |-> <<total, touched_recs, changed_links>>]
           /\ Attempted <=> (csv_path # "None" /\ Len(rows) > 0)
           /\ ~(HasLine("csv_written") /\ HasLine("csv_warning"))
           /\ HasLine("csv_written") => csvfile = File(<<Header>> \o rows)
           /\ ~Attempted => ~csvfile.exists

C9_Witness ==
    /\ pc = "done"
    /\ HasLine("csv_warning")
    /\ Len(rows) = 4
    /\ total = 2

InitGui == NormIdle /\ FileIdle /\ GuiIdle

\* The worker thread standing before a record reads it.  PF_Record's body is
\* defined wherever its guard holds, so the step is enabled exactly when the
\* guard holds and is recognised by the record counter.
RecordTurn ==
    /\ wpc = "run"
    /\ pc = "loop"
    /\ total < Len(recs)
    /\ total' = total + 1

\* Every other step of the worker thread
WorkerRest ==
    \/ OnWorker(PF_Open)
    \/ OnWorker(PF_OpenFail)
    \/ OnWorker(PF_ReadFail)
    \/ OnWorker(PF_DecodeFail)
    \/ OnWorker(PF_Close)
    \/ OnWorker(PF_CloseFail)
    \/ OnWorker(PF_Csv)
    \/ OnWorker(PF_CsvFail)
    \/ OnWorker(PF_NoCsv)
    \/ WorkerReport
    \/ WorkerFinally

NextGui ==
    \/ RunClicked /\ UNCHANGED nvars
    \/ OnWorker(PF_Open) /\ UNCHANGED nvars
    \/ OnWorker(PF_OpenFail) /\ UNCHANGED nvars
    \/ OnWorker(PF_Record) /\ UNCHANGED nvars
    \/ OnWorker(PF_ReadFail) /\ UNCHANGED nvars
    \/ OnWorker(PF_DecodeFail) /\ UNCHANGED nvars
    \/ OnWorker(PF_Close) /\ UNCHANGED nvars
    \/ OnWorker(PF_CloseFail) /\ UNCHANGED nvars
    \/ OnWorker(PF_Csv) /\ UNCHANGED nvars
    \/ OnWorker(PF_CsvFail) /\ UNCHANGED nvars
    \/ OnWorker(PF_NoCsv) /\ UNCHANGED nvars
    \/ WorkerReport /\ UNCHANGED nvars
    \/ WorkerFinally /\ UNCHANGED nvars
    \/ UiApply /\ UNCHANGED nvars

\* The worker thread keeps running and the Tk main loop keeps serving its queue
SpecGui ==
    /\ InitGui
    /\ [][NextGui]_vars
    /\ WF_total(RecordTurn)
    /\ WF_vars(WorkerRest /\ UNCHANGED nvars)
    /\ WF_vars(UiApply /\ UNCHANGED nvars)

(***************************************************************************)
(* Properties of the Tk shell, under SpecGui.                              *)
(***************************************************************************)
IsWorkerLine(l) == l.kind \notin {"input", "output", "csv", "starting"}

Queued == SelectSeq(uiq, LAMBDA e : e.type = "log")

QueuedLines == [i \in 1..Len(Queued) |-> Queued[i].line]

OnePass ==
    /\ workers \in {0, 1}
    /\ workers = 1 => run_btn = "disabled"
    /\ workers = 1 <=> wpc # "idle"

\* The worker's lines reach the widget through the queue, in emission order
InOrder == SelectSeq(widget, IsWorkerLine) \o QueuedLines = emitted

GuiStep ==
    /\ workers' > workers => (run_btn = "normal" /\ run_btn' = "disabled")
    /\ (run_btn = "disabled" /\ run_btn' = "normal")
           => /\ Len(uiq) > 0
              /\ Head(uiq).type = "finish"
              /\ workers = 0
              /\ pc \in {"done", "failed"}
    /\ widget' # widget
           => \/ Len(uiq) > 0 /\ uiq' = Tail(uiq) /\ widget' = Append(widget, Head(uiq).line)
              \/ run_btn = "normal" /\ run_btn' = "disabled"

\* C10: at most one pass is active; the Run control is disabled when the
\* worker starts and re-enabled only by the callback the worker queues after
\* process_file returned or raised, which happens eventually in both
\* outcomes; the worker's log lines reach the widget only through the queue,
\* in the order emitted.
C10_SinglePass ==
    /\ [](OnePass /\ InOrder)
    /\ [][GuiStep]_vars
    /\ (run_btn = "disabled") ~> (run_btn = "normal")

C10_Witness ==
    /\ runs = 2
    /\ run_btn = "normal"
    /\ raised
    /\ Len(uiq) = 0
    /\ Len(SelectSeq(widget, IsWorkerLine)) = 3

====
